---- MODULE Spec2Model ----
(***************************************************************************)
(* State-machine model of runAuditorySequenceExperiment_v2_test_short.py   *)
(* (class AuditorySequenceExperiment): the counterbalanced block order,    *)
(* the run loop over blocks and trials, the phases of run_trial, the       *)
(* keyboard handling of check_pause and the EEG trigger port.              *)
(***************************************************************************)
EXTENDS Integers, Sequences, FiniteSets, TLC

(***************************************************************************)
(* Bounds of the model.                                                    *)
(***************************************************************************)
\* largest block number a design directory may hold (block_1 .. block_N)
MaxBlockNum == 2
\* most key presses that can be pending in the keyboard event buffer
MaxBuf == 2
\* longest natural duration of a stimulus sound, in milliseconds
MaxSoundMs == 1
\* longest time, in seconds, the model lets a key wait last
MaxWaited == 6
\* most blocks and most trial directories per block on disk in a whole run
MaxRunBlocks == 2
MaxRunTrialDirs == 2
\* most trial directories per block when the limit of three trials is at stake
MaxCapTrialDirs == 4

(***************************************************************************)
(* Program constants: self.params of __init__.                             *)
(***************************************************************************)
block_designs ==
    << [name |-> "three_3_syllable_words", num_words |-> 3, syllables_per_word |-> 3],
       [name |-> "three_4_syllable_words", num_words |-> 3, syllables_per_word |-> 4],
       [name |-> "four_3_syllable_words",  num_words |-> 4, syllables_per_word |-> 3] >>

DesignIdx == DOMAIN block_designs

DesignNames == {block_designs[i].name : i \in DesignIdx}

(***************************************************************************)
(* Helpers on sequences.                                                   *)
(***************************************************************************)
Range(s) == {s[i] : i \in DOMAIN s}

RECURSIVE SortedSeq(_)
\* list.sort() of a set of distinct integers: ascending order
SortedSeq(S) ==
    IF S = {} THEN << >>
    ELSE LET lo == CHOOSE x \in S : \A y \in S : x <= y
         IN  << lo >> \o SortedSeq(S \ {lo})

\* np.random.shuffle(s): every permutation of s is a possible outcome
Shuffles(s) ==
    {p \in [DOMAIN s -> Range(s)] : \A x \in Range(s) : \E i \in DOMAIN s : p[i] = x}

RECURSIVE Flatten(_)
\* list.extend applied to each element of a sequence of sequences, in order
Flatten(ss) ==
    IF ss = << >> THEN << >> ELSE Head(ss) \o Flatten(Tail(ss))

MinOf(S) == CHOOSE x \in S : \A y \in S : x <= y

(***************************************************************************)
(* The stimulus inventory on disk: for every configured design whether its *)
(* directory exists, and the numbers of the block_<n> directories in it.   *)
(***************************************************************************)
\* trials: the number of trial_<n> directories in each block of the design
Inventories ==
    {inv \in [DesignIdx -> [exists : BOOLEAN, blocks : SUBSET (1 .. MaxBlockNum),
                            trials : {0}]] :
        \A d \in DesignIdx : ~inv[d].exists => inv[d].blocks = {}}

\* the blocks of design d listed from disk, sorted, as block records
ListedBlocks(inv, d) ==
    LET nums == SortedSeq(inv[d].blocks)
    IN  [i \in DOMAIN nums |->
            [design |-> block_designs[d].name,
             block_num |-> nums[i],
             num_words |-> block_designs[d].num_words,
             syllables_per_word |-> block_designs[d].syllables_per_word]]

\* list(blocks_by_design.keys()): the designs whose directory exists, in
\* the order of block_designs (dict insertion order)
design_names(inv) ==
    LET present == SelectSeq(<< 1, 2, 3 >>, LAMBDA d : inv[d].exists)
    IN  [i \in DOMAIN present |-> block_designs[present[i]].name]

\* the index in block_designs of a design name
IdxOf(name) == CHOOSE d \in DesignIdx : block_designs[d].name = name

\* every outcome of shuffling each present design's listed blocks
ShuffledByDesign(inv) ==
    LET names == Range(design_names(inv))
    IN  {bbd \in [names -> UNION {Shuffles(ListedBlocks(inv, IdxOf(n))) : n \in names}] :
            \A n \in names : bbd[n] \in Shuffles(ListedBlocks(inv, IdxOf(n)))}

min_blocks_per_design(bbd, dn) == MinOf({Len(bbd[dn[i]]) : i \in DOMAIN dn})

\* mutant of Triplet: every round takes the first block of each design
Triplet_FirstBlock(bbd, dn, i) == [j \in DOMAIN dn |-> bbd[dn[j]][1]]

\* the triplet of round i before it is shuffled: the i-th block of each design
Triplet(bbd, dn, i) == [j \in DOMAIN dn |-> bbd[dn[j]][i]]

\* mutant of RemainingBlocks: the slice starts one block too late
RemainingBlocks_OffByOne(bbd, dn, m) ==
    Flatten([j \in DOMAIN dn |-> SubSeq(bbd[dn[j]], m + 2, Len(bbd[dn[j]]))])

\* mutant of RemainingBlocks: the groups come in reverse design order
RemainingBlocks_DesignsReversed(bbd, dn, m) ==
    Flatten([j \in DOMAIN dn |->
                SubSeq(bbd[dn[Len(dn) + 1 - j]], m + 1, Len(bbd[dn[Len(dn) + 1 - j]]))])

\* the remaining blocks of every design, grouped by design, in design order
RemainingBlocks(bbd, dn, m) ==
    Flatten([j \in DOMAIN dn |-> SubSeq(bbd[dn[j]], m + 1, Len(bbd[dn[j]]))])

\* every block order generate_block_order can build from shuffled lists bbd
BlockOrders(bbd, dn) ==
    LET m == min_blocks_per_design(bbd, dn)
        choices == UNION {Shuffles(Triplet(bbd, dn, i)) : i \in 1 .. m}
    IN  {Flatten(trip) \o RemainingBlocks(bbd, dn, m) :
            trip \in {t \in [1 .. m -> choices] :
                        \A i \in 1 .. m : t[i] \in Shuffles(Triplet(bbd, dn, i))}}

\* the inventories of a whole run: the existing designs hold blocks 1..c and
\* every block holds the same number of trial directories
RunInventories(maxBlocks, maxTrials) ==
    {inv \in [DesignIdx -> [exists : BOOLEAN, blocks : SUBSET (1 .. MaxBlockNum),
                            trials : 0 .. maxTrials]] :
        /\ \A d \in DesignIdx :
              /\ inv[d].exists = (inv[d].blocks # {})
              /\ \E c \in 0 .. MaxBlockNum : inv[d].blocks = 1 .. c
              /\ (inv[d].blocks = {}) => inv[d].trials = 0
        /\ Cardinality(inv[1].blocks) + Cardinality(inv[2].blocks)
              + Cardinality(inv[3].blocks) <= maxBlocks}

(***************************************************************************)
(* Timing parameters (milliseconds) and trigger codes of self.params.      *)
(***************************************************************************)
encoding_fixation_duration == 600
retention_delay == 3000
neutral_impulse_duration == 100
post_impulse_fixation == 800
report_response_time == 500
inter_report_interval == 200
inter_trial_interval == 1000
feedback_duration == 2000
cleanup_delay == 50
\* only the first three trial directories of a block are used
trials_per_block == 3
\* max_response_time of the first version of the script, in seconds
max_response_time == 5

trigger_cue_start == 1
trigger_neutral_impulse == 2
trigger_global_prompt == 3
trigger_global_response == 4
trigger_local_prompt == 5
trigger_local_response == 6

TriggerCodes == {trigger_cue_start, trigger_neutral_impulse, trigger_global_prompt,
                 trigger_global_response, trigger_local_prompt, trigger_local_response}

(***************************************************************************)
(* The environment: the keys a participant may press, the states of the    *)
(* parallel port, the ways a stimulus file can fail, the cue file names.   *)
(***************************************************************************)
Keys == {"2", "3", "4", "p", "escape"}

Ports == {"none", "ok", "faulty"}

Faults == {"missing", "load_fail", "play_fail"}

\* cue_info parsed from the cue file name, e.g. word2_syllable_3_...mp3
CueInfos == {[word |-> 2, syllable |-> 3]}

SoundDurations == 1 .. MaxSoundMs

\* Python None and a present value, for responses and reaction times
None == << >>
Some(x) == << x >>

VARIABLES
    pc,                \* control point of run_experiment / run_trial / check_pause
    outcome,           \* "running", "cancelled", "aborted", "error" or "completed"
    inventory,         \* the stimulus directories on disk
    faults,            \* the stimulus faults this run's files can show
    user_keys,         \* the keys the participant uses in this run
    port,              \* the parallel port: absent, working or raising
    blocks_by_design,  \* generate_block_order: the shuffled lists
    block_order,       \* self.block_order
    order_file,        \* the block order files written
    results,           \* self.results
    result_files,      \* the result snapshots written by save_results
    block_idx,         \* position in block_order (1-based)
    trial_dirs,        \* number of trials of the current block
    trial_idx,         \* index of the current trial in the block (0-based)
    trial_counter,     \* trial_counter of run_experiment
    keyBuffer,         \* pending keyboard events (psychopy event buffer)
    keys,              \* run_trial's local keys
    paused,            \* self.paused
    ret,               \* where check_pause returns to
    trial,             \* the locals of run_trial
    phase,             \* the phase the trial is in
    timer,             \* time left of the core.wait in progress (ms)
    waited,            \* time spent in the key wait in progress (s)
    triggers,          \* codes written to the port during the current trial
    syl_sound,         \* syl_sound is bound to a live Sound
    cue_sound,         \* cue_sound is bound to a live Sound
    live_sounds        \* number of Sound objects alive

envVars   == << inventory, faults, user_keys, port >>
orderVars == << blocks_by_design, block_order, order_file >>
logVars   == << results, result_files >>
loopVars  == << block_idx, trial_dirs, trial_idx, trial_counter >>
trialVars == << trial, phase, timer, waited, triggers >>
soundVars == << syl_sound, cue_sound, live_sounds >>
vars == << pc, outcome, inventory, faults, user_keys, port, blocks_by_design,
           block_order, order_file, results, result_files, block_idx, trial_dirs,
           trial_idx, trial_counter, keyBuffer, keys, paused, ret, trial,
           phase, timer, waited, triggers, syl_sound, cue_sound, live_sounds >>

NoTrial ==
    [trial_num |-> 0, design |-> "", block_num |-> 0, num_words |-> 0,
     syllables_per_word |-> 0, is_practice |-> FALSE, global_first |-> FALSE,
     cue_info |-> [word |-> 0, syllable |-> 0], word_idx |-> 0, syl_idx |-> 0,
     report_no |-> 0, global_response |-> None, local_response |-> None,
     global_rt |-> None, local_rt |-> None]

\* the state after __init__, before run_experiment: pcStart is the first
\* control point, the other arguments the environments considered
InitWith(pcStart, invs, ports, faultSets, keySets) ==
    /\ pc = pcStart
    /\ outcome = "running"
    /\ inventory \in invs
    /\ faults \in faultSets
    /\ user_keys \in keySets
    /\ port \in ports
    /\ blocks_by_design = << >>
    /\ block_order = << >>
    /\ order_file = << >>
    /\ results = << >>
    /\ result_files = << >>
    /\ block_idx = 0
    /\ trial_dirs = 0
    /\ trial_idx = 0
    /\ trial_counter = 0
    /\ keyBuffer = << >>
    /\ keys = << >>
    /\ paused = FALSE
    /\ ret = "none"
    /\ trial = NoTrial
    /\ phase = "Idle"
    /\ timer = 0
    /\ waited = 0
    /\ triggers = << >>
    /\ syl_sound = FALSE
    /\ cue_sound = FALSE
    /\ live_sounds = 0

(***************************************************************************)
(* Keyboard: psychopy.event as the script uses it.                         *)
(***************************************************************************)
\* the control points at which wall-clock time passes (core.wait, waitKeys,
\* a window flip followed by a trigger pulse): keys arrive there
TimePcs ==
    {"instr_wait", "block_wait", "block_done_wait", "final_wait", "pause_wait",
     "enc_fix", "enc_play", "cue_play", "retention", "neutral_hold", "post_impulse",
     "report_prompt", "report_wait", "inter_report", "response_display",
     "feedback", "iti", "gc_wait"}

\* the participant presses key k: the event is queued
PressKey(k) ==
    /\ outcome = "running"
    /\ pc \in TimePcs
    /\ k \in user_keys
    /\ Len(keyBuffer) < MaxBuf
    /\ keyBuffer' = Append(keyBuffer, k)
    /\ UNCHANGED << pc, outcome, envVars, orderVars, logVars, loopVars, keys, paused,
                    ret, trialVars, soundVars >>

\* event.getKeys(keyList=allowed): the pending keys that are in allowed
Targets(buf, allowed) == SelectSeq(buf, LAMBDA k : k \in allowed)

\* what event.getKeys(keyList=allowed) leaves in the buffer
NonTargets(buf, allowed) == SelectSeq(buf, LAMBDA k : k \notin allowed)

\* core.quit(): SystemExit leaves every frame; cleanup() runs in the finally
Quit ==
    /\ pc' = "exit"
    /\ outcome' = "aborted"

\* an exception no handler of run_trial absorbs: run_experiment re-raises it
Raise ==
    /\ pc' = "exit"
    /\ outcome' = "error"

\* 'p' in keys: the pause key is among the keys read
PauseRequested(ks) == "p" \in Range(ks)

\* mutant of ResumeRequested: any key ends the pause
ResumeRequested_AnyKey(ks) == ks # << >>

\* 'p' in keys, in the pause loop: the pause key was pressed again
ResumeRequested(ks) == "p" \in Range(ks)

\* mutant of AbortRequested: only the first key read is looked at
AbortRequested_FirstOnly(ks) == ks # << >> /\ ks[1] = "escape"

\* 'escape' in keys: the abort key is among the keys read
AbortRequested(ks) == "escape" \in Range(ks)

\* mutant of check_pause: the flag is toggled and the call returns at once
check_pause_NoWait(r) ==
    /\ keyBuffer' = << >>
    /\ paused' = (IF PauseRequested(keyBuffer) THEN ~paused ELSE paused)
    /\ ret' = "none"
    /\ IF AbortRequested(keyBuffer)
         THEN Quit
         ELSE pc' = r /\ outcome' = outcome

\* check_pause() called where the program would continue at control point r,
\* up to its return, its core.quit() or its blocking in the pause loop; its
\* local keys is overwritten by the pause loop's event.waitKeys() before the
\* final test for 'escape' reads it
check_pause(r) ==
    /\ keyBuffer' = << >>
    /\ IF PauseRequested(keyBuffer) /\ ~paused
         THEN /\ paused' = TRUE
              /\ ret' = r
              /\ pc' = "pause_wait"
              /\ outcome' = outcome
         ELSE /\ paused' = (IF PauseRequested(keyBuffer) THEN ~paused ELSE paused)
              /\ ret' = "none"
              /\ IF AbortRequested(keyBuffer)
                   THEN Quit
                   ELSE pc' = r /\ outcome' = outcome

\* the pause loop of check_pause: event.waitKeys() returned the pending keys
pause_wait ==
    /\ pc = "pause_wait"
    /\ keyBuffer # << >>
    /\ keyBuffer' = << >>
    /\ IF ResumeRequested(keyBuffer)
         THEN /\ paused' = FALSE
              /\ ret' = "none"
              /\ IF AbortRequested(keyBuffer)
                   THEN Quit
                   ELSE pc' = ret /\ outcome' = outcome
         ELSE /\ paused' = paused
              /\ ret' = ret
              /\ IF AbortRequested(keyBuffer)
                   THEN Quit
                   ELSE pc' = "pause_wait" /\ outcome' = outcome
    /\ UNCHANGED << envVars, orderVars, logVars, loopVars, keys, trialVars, soundVars >>

(***************************************************************************)
(* run_experiment.                                                         *)
(***************************************************************************)
\* mutant of get_subject_info: the answer of the dialog is ignored
get_subject_info_Ignored ==
    /\ pc = "get_subject_info"
    /\ pc' = "generate_block_order"
    /\ \E ok \in BOOLEAN : outcome' = (IF ok THEN outcome ELSE "cancelled")
    /\ UNCHANGED << envVars, orderVars, logVars, loopVars, keyBuffer, keys, paused,
                    ret, trialVars, soundVars >>

\* get_subject_info(): the dialog is confirmed or cancelled
get_subject_info ==
    /\ pc = "get_subject_info"
    /\ \E ok \in BOOLEAN :
          IF ok THEN pc' = "generate_block_order" /\ outcome' = outcome
                ELSE pc' = "exit" /\ outcome' = "cancelled"
    /\ UNCHANGED << envVars, orderVars, logVars, loopVars, keyBuffer, keys, paused,
                    ret, trialVars, soundVars >>

\* mutant of dump_block_order: the order is not written
dump_block_order_Skipped(order) == order_file

\* json.dump(self.block_order, f): the order is written to its file
dump_block_order(order) == Append(order_file, order)

\* generate_block_order(), then show_instructions() up to its waitKeys()
generate_block_order ==
    /\ pc = "generate_block_order"
    /\ LET dn == design_names(inventory)
       IN  IF dn = << >>
             THEN \* min() of an empty sequence raises ValueError
                  /\ Raise
                  /\ UNCHANGED orderVars
             ELSE /\ \E bbd \in ShuffledByDesign(inventory) :
                        /\ blocks_by_design' = bbd
                        /\ \E order \in BlockOrders(bbd, dn) :
                              /\ block_order' = order
                              /\ order_file' = dump_block_order(order)
                  /\ pc' = "instr_wait"
                  /\ outcome' = outcome
    /\ keyBuffer' = << >>
    /\ UNCHANGED << envVars, logVars, loopVars, keys, paused, ret,
                    trialVars, soundVars >>

\* show_instructions(): event.waitKeys() returns on any key; then the run
\* starts: self.results = [], trial_counter = 0
instr_wait ==
    /\ pc = "instr_wait"
    /\ keyBuffer # << >>
    /\ keyBuffer' = << >>
    /\ results' = << >>
    /\ trial_counter' = 0
    /\ block_idx' = 1
    /\ pc' = "block_loop"
    /\ UNCHANGED << outcome, envVars, orderVars, result_files, trial_dirs, trial_idx,
                    keys, paused, ret, trialVars, soundVars >>

\* mutant of get_trials_in_block: every trial directory is used
get_trials_in_block_All(design_name, block_num) ==
    inventory[IdxOf(design_name)].trials

\* get_trials_in_block(): the first three trial directories of the block
get_trials_in_block(design_name, block_num) ==
    LET n == inventory[IdxOf(design_name)].trials
    IN  IF n < trials_per_block THEN n ELSE trials_per_block

\* head of the block loop: the next block's trials and its start message
block_loop ==
    /\ pc = "block_loop"
    /\ IF block_idx > Len(block_order)
         THEN /\ pc' = "final"
              /\ UNCHANGED << keyBuffer, loopVars >>
         ELSE LET block_info == block_order[block_idx]
                  n == get_trials_in_block(block_info.design, block_info.block_num)
              IN  /\ trial_dirs' = n
                  /\ IF n = 0
                       THEN \* continue
                            /\ block_idx' = block_idx + 1
                            /\ pc' = "block_loop"
                            /\ UNCHANGED keyBuffer
                       ELSE /\ keyBuffer' = << >>
                            /\ pc' = "block_wait"
                            /\ UNCHANGED block_idx
                  /\ UNCHANGED << trial_idx, trial_counter >>
    /\ UNCHANGED << outcome, envVars, orderVars, logVars, keys, paused, ret,
                    trialVars, soundVars >>

\* the block start message: event.waitKeys() returns on any key
block_wait ==
    /\ pc = "block_wait"
    /\ keyBuffer # << >>
    /\ keyBuffer' = << >>
    /\ trial_idx' = 0
    /\ pc' = "trial_loop"
    /\ UNCHANGED << outcome, envVars, orderVars, logVars, block_idx, trial_dirs,
                    trial_counter, keys, paused, ret, trialVars, soundVars >>

\* mutant of save_results: nothing is written
save_results_Skipped == result_files

\* save_results(): a snapshot of all of self.results is written
save_results == Append(result_files, results)

\* head of the trial loop: check_pause() before every trial, or the end of
\* the block
trial_loop ==
    /\ pc = "trial_loop"
    /\ IF trial_idx < trial_dirs
         THEN /\ check_pause("run_trial")
              /\ UNCHANGED << logVars, block_idx >>
         ELSE \* save_results() after the block, then the block complete message
              /\ result_files' = save_results
              /\ UNCHANGED << results, outcome, paused, ret >>
              /\ IF block_idx < Len(block_order)
                   THEN /\ keyBuffer' = << >>
                        /\ pc' = "block_done_wait"
                        /\ UNCHANGED block_idx
                   ELSE /\ block_idx' = block_idx + 1
                        /\ pc' = "block_loop"
                        /\ UNCHANGED keyBuffer
    /\ UNCHANGED << envVars, orderVars, trial_dirs, trial_idx, trial_counter, keys,
                    trialVars, soundVars >>

\* the block complete message: event.waitKeys() returns on any key
block_done_wait ==
    /\ pc = "block_done_wait"
    /\ keyBuffer # << >>
    /\ keyBuffer' = << >>
    /\ block_idx' = block_idx + 1
    /\ pc' = "block_loop"
    /\ UNCHANGED << outcome, envVars, orderVars, logVars, trial_dirs, trial_idx,
                    trial_counter, keys, paused, ret, trialVars, soundVars >>

\* after the last block: the final statistics and the last save_results()
final ==
    /\ pc = "final"
    /\ IF results = << >>
         THEN /\ pc' = "exit"
              /\ outcome' = "completed"
              /\ UNCHANGED << keyBuffer, result_files >>
         ELSE IF \E i \in DOMAIN results : ~results[i].is_practice
                THEN /\ keyBuffer' = << >>
                     /\ pc' = "final_wait"
                     /\ UNCHANGED << outcome, result_files >>
                ELSE /\ result_files' = save_results
                     /\ pc' = "exit"
                     /\ outcome' = "completed"
                     /\ UNCHANGED keyBuffer
    /\ UNCHANGED << envVars, orderVars, results, loopVars, keys, paused, ret,
                    trialVars, soundVars >>

\* the final statistics screen: any key, then save_results() and cleanup()
final_wait ==
    /\ pc = "final_wait"
    /\ keyBuffer # << >>
    /\ keyBuffer' = << >>
    /\ result_files' = save_results
    /\ pc' = "exit"
    /\ outcome' = "completed"
    /\ UNCHANGED << envVars, orderVars, results, loopVars, keys, paused, ret,
                    trialVars, soundVars >>

(***************************************************************************)
(* run_trial.                                                              *)
(***************************************************************************)
\* mutant of send_trigger: the code is written whatever the state of the port
send_trigger_Unguarded(code) == Append(triggers, code)

\* send_trigger(code): the codes written to the port so far in this trial;
\* without a port nothing is written, a raising port's error is absorbed
send_trigger(code) ==
    IF port = "ok" THEN Append(triggers, code) ELSE triggers

\* str(i) for the number keys, and int(key) for a key that names a number
DigitKeys == << "1", "2", "3", "4" >>
IsDigit(k) == \E i \in DOMAIN DigitKeys : DigitKeys[i] = k
IntOf(k) == CHOOSE i \in DOMAIN DigitKeys : DigitKeys[i] = k

\* mutant of valid_global_keys: every number key is accepted
valid_global_keys_AllDigits(t) == Range(DigitKeys)

\* valid_global_keys / valid_local_keys
valid_global_keys(t) == {DigitKeys[i] : i \in 1 .. t.num_words}
valid_local_keys(t) == {DigitKeys[i] : i \in 1 .. t.syllables_per_word}

\* mutant of Axis: the global position is always reported first
Axis_GlobalAlwaysFirst(t) == IF t.report_no = 1 THEN "global" ELSE "local"

\* the axis reported in the report phase in progress
Axis(t) == IF (t.report_no = 1) = t.global_first THEN "global" ELSE "local"

\* mutant of PromptCode: the prompt sends the response code of its axis
PromptCode_Swapped(axis) ==
    IF axis = "global" THEN trigger_global_response ELSE trigger_local_response

PromptCode(axis) ==
    IF axis = "global" THEN trigger_global_prompt ELSE trigger_local_prompt

ResponseCode(axis) ==
    IF axis = "global" THEN trigger_global_response ELSE trigger_local_response

\* keyList of the report's event.waitKeys
ReportKeyList(t) ==
    (IF Axis(t) = "global" THEN valid_global_keys(t) ELSE valid_local_keys(t))
        \cup {"p", "escape"}

\* the loop variables after the current syllable: next syllable, next word
NextItem(t) ==
    IF t.syl_idx + 1 < t.syllables_per_word
      THEN [t EXCEPT !.syl_idx = t.syl_idx + 1]
      ELSE [t EXCEPT !.word_idx = t.word_idx + 1, !.syl_idx = 0]

\* bool(response == correct): a response that is None equals no position
IsCorrect(response, correct) == response = Some(correct)

\* mutant of both_correct: one correct axis is enough
both_correct_Either(global_correct, local_correct) == global_correct \/ local_correct

\* bool(global_correct and local_correct)
both_correct(global_correct, local_correct) == global_correct /\ local_correct

\* the result dictionary run_trial returns
MakeResult(t) ==
    LET correct_global == t.cue_info.word
        correct_local == t.cue_info.syllable
        global_correct == IsCorrect(t.global_response, correct_global)
        local_correct == IsCorrect(t.local_response, correct_local)
    IN  [trial |-> t.trial_num, design |-> t.design, block_num |-> t.block_num,
         correct_global |-> correct_global, correct_local |-> correct_local,
         global_response |-> t.global_response, local_response |-> t.local_response,
         global_correct |-> global_correct, local_correct |-> local_correct,
         both_correct |-> both_correct(global_correct, local_correct),
         global_rt |-> t.global_rt, local_rt |-> t.local_rt,
         is_practice |-> t.is_practice, global_first |-> t.global_first]

\* mutant of is_practice: every trial is a practice trial
is_practice_Always(idx) == TRUE

\* is_practice = (trial_idx == 0): the first trial of a block is practice
is_practice(idx) == idx = 0

\* mutant of append_result: the result replaces the log
append_result_Replacing(r) == << r >>

\* self.results.append(result)
append_result(r) == Append(results, r)

\* run_experiment counts the trial and calls run_trial: load_trial_audio,
\* the report order, the encoding fixation
run_trial ==
    /\ pc = "run_trial"
    /\ trial_counter' = trial_counter + 1
    /\ \E load \in {"ok"} \cup (faults \cap {"missing", "load_fail"}) :
         CASE load = "load_fail" ->
                \* os.listdir of a missing words/ or cue/ directory raises
                /\ Raise
                /\ UNCHANGED << trial_idx, trialVars >>
           [] load = "missing" ->
                \* no cue file, or a cue file name that does not parse: return None
                /\ trial_idx' = trial_idx + 1
                /\ pc' = "trial_loop"
                /\ UNCHANGED << outcome, trialVars >>
           [] load = "ok" ->
                /\ \E cue \in CueInfos, gf \in BOOLEAN :
                      trial' = [NoTrial EXCEPT
                                  !.trial_num = trial_counter + 1,
                                  !.design = block_order[block_idx].design,
                                  !.block_num = block_order[block_idx].block_num,
                                  !.num_words = block_order[block_idx].num_words,
                                  !.syllables_per_word =
                                      block_order[block_idx].syllables_per_word,
                                  !.is_practice = is_practice(trial_idx),
                                  !.cue_info = cue,
                                  !.global_first = gf]
                /\ triggers' = << >>
                /\ phase' = "EncodingFixation"
                /\ timer' = encoding_fixation_duration
                /\ pc' = "enc_fix"
                /\ UNCHANGED << outcome, trial_idx, waited >>
    /\ UNCHANGED << envVars, orderVars, logVars, block_idx, trial_dirs, keyBuffer,
                    keys, paused, ret, soundVars >>

\* the encoding fixation is over: check_pause(), then the first syllable
enc_fix ==
    /\ pc = "enc_fix"
    /\ timer' = 0
    /\ check_pause("enc_item")
    /\ UNCHANGED << envVars, orderVars, logVars, loopVars, keys, trial, phase, waited,
                    triggers, soundVars >>

\* head of the syllable loop: the next syllable's file is absent (skipped),
\* fails to load, or loads into a new Sound
enc_item ==
    /\ pc = "enc_item"
    /\ IF trial.word_idx >= trial.num_words
         THEN /\ pc' = "cue"
              /\ UNCHANGED << outcome, keyBuffer, paused, ret, trial, phase,
                              live_sounds >>
         ELSE /\ phase' = "EncodingSequence"
              /\ \E f \in {"ok"} \cup (faults \cap {"missing", "load_fail"}) :
                   CASE f = "missing" ->
                          /\ trial' = NextItem(trial)
                          /\ pc' = "enc_item"
                          /\ UNCHANGED << outcome, keyBuffer, paused, ret,
                                          live_sounds >>
                     [] f = "load_fail" ->
                          \* sound.Sound raises: except, core.wait(0), check_pause()
                          /\ trial' = NextItem(trial)
                          /\ check_pause("enc_item")
                          /\ UNCHANGED live_sounds
                     [] f = "ok" ->
                          /\ live_sounds' = live_sounds + 1
                          /\ pc' = "enc_loaded"
                          /\ UNCHANGED << outcome, keyBuffer, paused, ret,
                                          trial >>
    /\ UNCHANGED << envVars, orderVars, logVars, loopVars, keys, timer, waited,
                    triggers, syl_sound, cue_sound >>

\* syl_sound is bound to the new Sound (the Sound it was still bound to is
\* released) and played; play() may raise, which leaves syl_sound bound
enc_loaded ==
    /\ pc = "enc_loaded"
    /\ syl_sound' = TRUE
    /\ live_sounds' = IF syl_sound THEN live_sounds - 1 ELSE live_sounds
    /\ \E f \in {"ok"} \cup (faults \cap {"play_fail"}) :
         IF f = "ok"
           THEN /\ \E d \in SoundDurations : timer' = d
                /\ pc' = "enc_play"
                /\ UNCHANGED << outcome, keyBuffer, paused, ret, trial >>
           ELSE /\ trial' = NextItem(trial)
                /\ check_pause("enc_item")
                /\ UNCHANGED timer
    /\ UNCHANGED << envVars, orderVars, logVars, loopVars, keys, phase, waited,
                    triggers, cue_sound >>

\* the syllable has played: stop(), del syl_sound, core.wait(0), check_pause()
enc_play ==
    /\ pc = "enc_play"
    /\ timer' = 0
    /\ syl_sound' = FALSE
    /\ live_sounds' = live_sounds - 1
    /\ trial' = NextItem(trial)
    /\ check_pause("enc_item")
    /\ UNCHANGED << envVars, orderVars, logVars, loopVars, keys, phase, waited,
                    triggers, cue_sound >>

\* the cue: sound.Sound(cue_filepath), send_trigger, play(); on an exception
\* the retention delay follows at once
cue ==
    /\ pc = "cue"
    /\ \E f \in {"ok"} \cup (faults \cap {"load_fail", "play_fail"}) :
         CASE f = "load_fail" ->
                /\ phase' = "RetentionDelay"
                /\ timer' = retention_delay
                /\ pc' = "retention"
                /\ UNCHANGED << triggers, cue_sound, live_sounds >>
           [] f = "play_fail" ->
                /\ triggers' = send_trigger(trigger_cue_start)
                /\ cue_sound' = TRUE
                /\ live_sounds' = live_sounds + 1
                /\ phase' = "RetentionDelay"
                /\ timer' = retention_delay
                /\ pc' = "retention"
           [] f = "ok" ->
                /\ triggers' = send_trigger(trigger_cue_start)
                /\ cue_sound' = TRUE
                /\ live_sounds' = live_sounds + 1
                /\ phase' = "CuePlayback"
                /\ \E d \in SoundDurations : timer' = d
                /\ pc' = "cue_play"
    /\ UNCHANGED << outcome, envVars, orderVars, logVars, loopVars, keyBuffer, keys,
                    paused, ret, trial, waited, syl_sound >>

\* the cue has played: stop(), del cue_sound, then the retention delay
cue_play ==
    /\ pc = "cue_play"
    /\ cue_sound' = FALSE
    /\ live_sounds' = live_sounds - 1
    /\ phase' = "RetentionDelay"
    /\ timer' = retention_delay
    /\ pc' = "retention"
    /\ UNCHANGED << outcome, envVars, orderVars, logVars, loopVars, keyBuffer, keys,
                    paused, ret, trial, waited, triggers, syl_sound >>

\* the retention delay is over: check_pause()
retention ==
    /\ pc = "retention"
    /\ timer' = 0
    /\ check_pause("neutral")
    /\ UNCHANGED << envVars, orderVars, logVars, loopVars, keys, trial, phase, waited,
                    triggers, soundVars >>

\* the neutral impulse: its trigger, the white circle, its hold
neutral ==
    /\ pc = "neutral"
    /\ triggers' = send_trigger(trigger_neutral_impulse)
    /\ phase' = "NeutralImpulse"
    /\ timer' = neutral_impulse_duration
    /\ pc' = "neutral_hold"
    /\ UNCHANGED << outcome, envVars, orderVars, logVars, loopVars, keyBuffer, keys,
                    paused, ret, trial, waited, soundVars >>

\* the impulse is over: the post-impulse fixation starts, with no check_pause()
neutral_hold ==
    /\ pc = "neutral_hold"
    /\ phase' = "PostImpulseFixation"
    /\ timer' = post_impulse_fixation
    /\ pc' = "post_impulse"
    /\ UNCHANGED << outcome, envVars, orderVars, logVars, loopVars, keyBuffer, keys,
                    paused, ret, trial, waited, triggers, soundVars >>

\* the post-impulse fixation is over: check_pause(), then the first report
post_impulse ==
    /\ pc = "post_impulse"
    /\ timer' = 0
    /\ trial' = [trial EXCEPT !.report_no = 1]
    /\ check_pause("report")
    /\ UNCHANGED << envVars, orderVars, logVars, loopVars, keys, phase, waited,
                    triggers, soundVars >>

\* mutant of ClearedBuffer: the pending events are kept
ClearedBuffer_Kept(buf) == buf

\* the event buffer after event.clearEvents, and after the clearing with
\* which event.waitKeys starts
ClearedBuffer(buf) == << >>

\* a report starts: event.clearEvents, the prompt is drawn and flipped, the
\* prompt trigger is sent
report ==
    /\ pc = "report"
    /\ keyBuffer' = ClearedBuffer(keyBuffer)
    /\ phase' = (IF trial.report_no = 1 THEN "ReportPrimary" ELSE "ReportSecondary")
    /\ triggers' = send_trigger(PromptCode(Axis(trial)))
    /\ pc' = "report_prompt"
    /\ UNCHANGED << outcome, envVars, orderVars, logVars, loopVars, keys, paused, ret,
                    trial, timer, waited, soundVars >>

\* timer = core.Clock(); event.waitKeys starts by clearing the event buffer
report_prompt ==
    /\ pc = "report_prompt"
    /\ keyBuffer' = ClearedBuffer(keyBuffer)
    /\ waited' = 0
    /\ pc' = "report_wait"
    /\ UNCHANGED << outcome, envVars, orderVars, logVars, loopVars, keys, paused, ret,
                    trial, phase, timer, triggers, soundVars >>

\* a second passes in event.waitKeys with no key of its keyList pending: the
\* call has no maxWait and goes on waiting
Tick ==
    /\ pc = "report_wait"
    /\ Targets(keyBuffer, ReportKeyList(trial)) = << >>
    /\ waited < MaxWaited
    /\ waited' = waited + 1
    /\ UNCHANGED << pc, outcome, envVars, orderVars, logVars, loopVars, keyBuffer, keys,
                    paused, ret, trial, phase, timer, triggers, soundVars >>

\* event.waitKeys returns the pending keys of its keyList
report_wait ==
    /\ pc = "report_wait"
    /\ Targets(keyBuffer, ReportKeyList(trial)) # << >>
    /\ keys' = Targets(keyBuffer, ReportKeyList(trial))
    /\ keyBuffer' = NonTargets(keyBuffer, ReportKeyList(trial))
    /\ waited' = 0
    /\ pc' = "report_keys"
    /\ UNCHANGED << outcome, envVars, orderVars, logVars, loopVars, paused, ret,
                    trial, phase, timer, triggers, soundVars >>

\* if 'p' in keys: self.check_pause()
report_keys ==
    /\ pc = "report_keys"
    /\ IF PauseRequested(keys)
         THEN check_pause("report_response")
         ELSE /\ pc' = "report_response"
              /\ UNCHANGED << outcome, keyBuffer, paused, ret >>
    /\ UNCHANGED << envVars, orderVars, logVars, loopVars, keys, trialVars, soundVars >>

\* the response of the axis: t with int(keys[0]) and the reaction time
WithResponse(t, axis, k) ==
    IF axis = "global"
      THEN [t EXCEPT !.global_response = Some(IntOf(k)), !.global_rt = Some("rt")]
      ELSE [t EXCEPT !.local_response = Some(IntOf(k)), !.local_rt = Some("rt")]

\* if 'escape' in keys: core.quit(); else the response is int(keys[0]), its
\* trigger is sent and the next hold starts
report_response ==
    /\ pc = "report_response"
    /\ IF AbortRequested(keys)
         THEN /\ Quit
              /\ UNCHANGED << keys, trialVars >>
         ELSE IF ~IsDigit(keys[1])
           THEN \* int('p') raises ValueError
                /\ Raise
                /\ UNCHANGED << keys, trialVars >>
           ELSE /\ trial' = WithResponse(trial, Axis(trial), keys[1])
                /\ triggers' = send_trigger(ResponseCode(Axis(trial)))
                /\ keys' = << >>
                /\ outcome' = outcome
                /\ UNCHANGED waited
                /\ IF trial.report_no = 1
                     THEN /\ phase' = "InterReportGap"
                          /\ timer' = inter_report_interval
                          /\ pc' = "inter_report"
                     ELSE /\ phase' = "ResponseDisplayHold"
                          /\ timer' = report_response_time
                          /\ pc' = "response_display"
    /\ UNCHANGED << envVars, orderVars, logVars, loopVars, keyBuffer, paused,
                    ret, soundVars >>

\* the inter-report interval is over: check_pause(), then the second report
inter_report ==
    /\ pc = "inter_report"
    /\ timer' = 0
    /\ trial' = [trial EXCEPT !.report_no = 2]
    /\ check_pause("report")
    /\ UNCHANGED << envVars, orderVars, logVars, loopVars, keys, phase, waited,
                    triggers, soundVars >>

\* the brief display is over: feedback for a practice trial, else the
\* inter-trial interval
response_display ==
    /\ pc = "response_display"
    /\ IF trial.is_practice
         THEN /\ phase' = "Feedback"
              /\ timer' = feedback_duration
              /\ pc' = "feedback"
         ELSE /\ phase' = "InterTrialGap"
              /\ timer' = inter_trial_interval
              /\ pc' = "iti"
    /\ UNCHANGED << outcome, envVars, orderVars, logVars, loopVars, keyBuffer, keys,
                    paused, ret, trial, waited, triggers, soundVars >>

\* the feedback is over: the inter-trial interval
feedback ==
    /\ pc = "feedback"
    /\ phase' = "InterTrialGap"
    /\ timer' = inter_trial_interval
    /\ pc' = "iti"
    /\ UNCHANGED << outcome, envVars, orderVars, logVars, loopVars, keyBuffer, keys,
                    paused, ret, trial, waited, triggers, soundVars >>

\* the inter-trial interval is over: check_pause()
iti ==
    /\ pc = "iti"
    /\ timer' = 0
    /\ check_pause("result")
    /\ UNCHANGED << envVars, orderVars, logVars, loopVars, keys, trial, phase, waited,
                    triggers, soundVars >>

\* the result is prepared: gc.collect(), core.wait(0.05)
result ==
    /\ pc = "result"
    /\ timer' = cleanup_delay
    /\ pc' = "gc_wait"
    /\ UNCHANGED << outcome, envVars, orderVars, logVars, loopVars, keyBuffer, keys,
                    paused, ret, trial, phase, waited, triggers, soundVars >>

\* run_trial returns its result (its locals are released) and run_experiment
\* appends it
gc_wait ==
    /\ pc = "gc_wait"
    /\ timer' = 0
    /\ phase' = "Done"
    /\ results' = append_result(MakeResult(trial))
    /\ trial_idx' = trial_idx + 1
    /\ syl_sound' = FALSE
    /\ cue_sound' = FALSE
    /\ live_sounds' = 0
    /\ pc' = "trial_loop"
    /\ UNCHANGED << outcome, envVars, orderVars, result_files, block_idx, trial_dirs,
                    trial_counter, keyBuffer, keys, paused, ret, trial, waited,
                    triggers >>

(***************************************************************************)
(* Specifications.                                                         *)
(***************************************************************************)
TrialStep ==
    \/ get_subject_info \/ generate_block_order \/ instr_wait \/ block_loop
    \/ block_wait \/ trial_loop \/ final
    \/ pause_wait \/ run_trial \/ enc_fix \/ enc_item \/ enc_loaded \/ enc_play
    \/ cue \/ cue_play \/ retention \/ neutral \/ neutral_hold \/ post_impulse
    \/ report \/ report_prompt \/ report_wait \/ report_keys \/ report_response
    \/ inter_report \/ response_display \/ feedback \/ iti \/ result \/ gc_wait

Next ==
    \/ TrialStep \/ block_done_wait \/ final_wait
    \/ Tick
    \/ \E k \in Keys : PressKey(k)

\* whole runs of up to MaxRunBlocks blocks of up to MaxRunTrialDirs trials, with
\* a working port, a participant who uses one number key, the pause key and
\* the abort key, and trials whose cue file can be absent
Init ==
    InitWith("get_subject_info", RunInventories(MaxRunBlocks, MaxRunTrialDirs),
             {"ok"}, {{"missing"}}, {{"2", "p", "escape"}})

Spec == Init /\ [][Next]_vars

\* runs of at most one block of one trial, in every environment: the port
\* absent, working or raising, every stimulus fault, every key
InitTrial ==
    InitWith("get_subject_info", RunInventories(1, 1), Ports, {Faults},
             {{"2", "3", "p", "escape"}})

\* with one trial there is no block complete message and no final statistics
NextTrial ==
    \/ TrialStep
    \/ Tick
    \/ \E k \in Keys : PressKey(k)

SpecTrial == InitTrial /\ [][NextTrial]_vars

\* generate_block_order alone, on every inventory
InitOrder ==
    InitWith("generate_block_order", Inventories, {"ok"}, {{}}, {{}})

SpecOrder == InitOrder /\ [][generate_block_order]_vars

(***************************************************************************)
(* Properties of generate_block_order.                                     *)
(***************************************************************************)
\* the block order has been built and saved
OrderGenerated == order_file # << >>

\* the (design, block_num) pairs available on disk
AvailableBlocks ==
    UNION {{<< block_designs[d].name, n >> : n \in inventory[d].blocks} : d \in DesignIdx}

\* the number of blocks design d has on disk
BlockCount(d) == Cardinality(inventory[d].blocks)

\* C1: the generated order holds every available block of every design
\* exactly once: its length is the sum of the per-design block counts, no
\* (design, block_num) pair occurs twice and none is missing.
C1_OrderCoversInventory ==
    OrderGenerated =>
        /\ Len(block_order) = BlockCount(1) + BlockCount(2) + BlockCount(3)
        /\ \A i, j \in DOMAIN block_order :
              (block_order[i].design = block_order[j].design
               /\ block_order[i].block_num = block_order[j].block_num) => i = j
        /\ {<< block_order[i].design, block_order[i].block_num >> : i \in DOMAIN block_order}
              = AvailableBlocks

\* an order built from unequal block counts: two triplets and a leftover tail
C1_Witness ==
    /\ OrderGenerated
    /\ BlockCount(1) = 2 /\ BlockCount(2) = 1 /\ BlockCount(3) = 2
    /\ Len(block_order) = 5

\* the smallest per-design block count, over all configured designs
MinBlockCount == MinOf({BlockCount(d) : d \in DesignIdx})

\* the designs of the D entries that follow position k
WindowDesigns(k, D) == [j \in 1 .. D |-> block_order[k + j].design]

\* the window of D entries after position k holds exactly one block of each design
OneOfEach(k, D) ==
    \A n \in DesignNames :
        Cardinality({j \in 1 .. D : WindowDesigns(k, D)[j] = n}) = 1

\* C2: inside the first D*m entries of the generated order, every run of D
\* consecutive entries, at every start index k with k + D <= D*m, holds
\* exactly one block of each design.
C2_EveryWindowBalanced ==
    OrderGenerated =>
        LET D == Len(block_designs)
            m == MinBlockCount
        IN  \A k \in 0 .. (D * m - D) : OneOfEach(k, D)

(***************************************************************************)
(* Properties of the triggers of one trial.                                *)
(***************************************************************************)
\* how often code c was written to the port in the current trial
TimesSent(c) == Cardinality({i \in DOMAIN triggers : triggers[i] = c})

\* the trial has returned its result and the result has been appended
TrialYieldedResult == phase = "Done" /\ results # << >>

\* C3: with triggers enabled, a trial that yields a result has emitted each of
\* the six trigger codes exactly once, in either report order and whether or
\* not a stimulus failed to load.
C3_SixTriggersOnce ==
    (port = "ok" /\ TrialYieldedResult) => \A c \in TriggerCodes : TimesSent(c) = 1

\* the trigger codes in phase order, for the trial's report order
PhaseOrder(global_first) ==
    IF global_first
      THEN << trigger_cue_start, trigger_neutral_impulse, trigger_global_prompt,
              trigger_global_response, trigger_local_prompt, trigger_local_response >>
      ELSE << trigger_cue_start, trigger_neutral_impulse, trigger_local_prompt,
              trigger_local_response, trigger_global_prompt, trigger_global_response >>

\* the place of code c in the phase order
Place(c, global_first) ==
    CHOOSE i \in DOMAIN PhaseOrder(global_first) : PhaseOrder(global_first)[i] = c

\* C4: within one trial the triggers are emitted in phase order and never
\* reordered: cue-start, neutral-impulse, then prompt and response of the
\* first-reported axis, then prompt and response of the second axis; a
\* response trigger never precedes the prompt trigger of its axis.
C4_TriggersInPhaseOrder ==
    /\ \A i, j \in DOMAIN triggers :
          i < j => Place(triggers[i], trial.global_first)
                     < Place(triggers[j], trial.global_first)
    /\ \A j \in DOMAIN triggers :
          /\ triggers[j] = trigger_global_response
                => \E i \in 1 .. j - 1 : triggers[i] = trigger_global_prompt
          /\ triggers[j] = trigger_local_response
                => \E i \in 1 .. j - 1 : triggers[i] = trigger_local_prompt

\* a finished trial that reported the local position first, all six sent
C4_Witness ==
    /\ TrialYieldedResult
    /\ ~trial.global_first
    /\ Len(triggers) = 6

(***************************************************************************)
(* Properties of abort and pause.                                          *)
(***************************************************************************)
\* the abort key has been pressed during a report wait and not yet acted on:
\* it is pending for event.waitKeys or in the keys the call returned
AbortTakenInReport ==
    \/ pc = "report_wait" /\ "escape" \in Range(keyBuffer)
    \/ pc \in {"report_keys", "report_response"} /\ "escape" \in Range(keys)
    \/ pc = "pause_wait" /\ ret = "report_response" /\ "escape" \in Range(keys)

\* C5: once the abort key is read inside a report wait, the run ends: no
\* result of that trial is appended or persisted, no later trial or block
\* starts, and an aborted run never changes again.
C5_AbortInReportEndsRun ==
    [][/\ AbortTakenInReport =>
            /\ results' = results
            /\ result_files' = result_files
            /\ trial_counter' = trial_counter
            /\ block_idx' = block_idx
            /\ AbortTakenInReport' \/ outcome' = "aborted"
       /\ outcome = "aborted" => UNCHANGED vars]_vars

\* a run aborted from a report wait of its second trial, after a digit in
\* the same batch, with one result recorded and a trial still to run
C5_Witness ==
    /\ outcome = "aborted"
    /\ pc = "exit"
    /\ Len(keys) = 2
    /\ keys[2] = "escape"
    /\ phase \in {"ReportPrimary", "ReportSecondary"}
    /\ Len(results) = 1
    /\ trial_counter = 2
    /\ trial_idx + 1 < trial_dirs

\* a trial is between its first phase and its return
TrialInProgress == phase \notin {"Idle", "Done"}

\* C6: during a trial an abort key press is never dropped: when it leaves the
\* event buffer the run is aborted or the key is in the keys just read, and
\* when it leaves the keys read the run is aborted, also when the pause key is
\* in the same batch.
C6_AbortNeverDropped ==
    [][TrialInProgress =>
         /\ ("escape" \in Range(keyBuffer) /\ "escape" \notin Range(keyBuffer'))
               => (outcome' = "aborted" \/ "escape" \in Range(keys'))
         /\ ("escape" \in Range(keys) /\ "escape" \notin Range(keys'))
               => outcome' = "aborted"]_vars

\* C7: while a fixed-duration phase holds with the abort key pressed, the
\* next step of the trial begins no later phase, sends no trigger and yields
\* no result: the run ends at the boundary that ends the phase.
C7_AbortEndsAtPhaseBoundary ==
    [][(TrialInProgress /\ timer > 0 /\ "escape" \in Range(keyBuffer)) =>
          /\ phase' = phase
          /\ triggers' = triggers
          /\ results' = results]_vars

\* C8: when a report wait returns the pause key (and not the abort key), the
\* experiment pauses.
C8_PauseKeyInReportPauses ==
    [][(pc = "report_keys" /\ "p" \in Range(keys) /\ "escape" \notin Range(keys))
          => paused']_vars

\* the configured duration of each fixed-duration phase
ConfiguredDuration ==
    [EncodingFixation    |-> encoding_fixation_duration,
     RetentionDelay      |-> retention_delay,
     NeutralImpulse      |-> neutral_impulse_duration,
     PostImpulseFixation |-> post_impulse_fixation,
     InterReportGap      |-> inter_report_interval,
     ResponseDisplayHold |-> report_response_time,
     Feedback            |-> feedback_duration,
     InterTrialGap       |-> inter_trial_interval]

\* C9: the pause key seen at a phase boundary suspends the trial there: no
\* hold is in flight, and until the pause key is pressed again no phase
\* starts, no trigger is sent and no result is recorded; every fixed-duration
\* phase is entered with its whole configured duration.
C9_PauseSuspendsAtBoundary ==
    /\ [](paused => timer = 0)
    /\ [][/\ paused => /\ phase' = phase
                       /\ triggers' = triggers
                       /\ results' = results
                       /\ timer' = timer
          /\ (paused /\ ~paused') => "p" \in Range(keyBuffer)
          /\ (paused /\ pc' # pc) =>
                \/ ~paused' /\ pc' = ret
                \/ outcome' = "aborted"
          /\ (phase' # phase /\ phase' \in DOMAIN ConfiguredDuration)
                => timer' = ConfiguredDuration[phase']]_vars

\* the trial is suspended at the boundary that ends the retention delay
C9_Witness ==
    /\ paused
    /\ pc = "pause_wait"
    /\ ret = "neutral"
    /\ phase = "RetentionDelay"
    /\ Len(triggers) = 1

\* C10: a report wait never lasts longer than the maximum response time.
C10_ReportWaitBounded == pc = "report_wait" => waited <= max_response_time

(***************************************************************************)
(* Properties of responses and scoring.                                    *)
(***************************************************************************)
\* the response recorded for an axis
ResponseOf(t, axis) ==
    IF axis = "global" THEN t.global_response ELSE t.local_response

\* C11: a report wait that has reached the maximum response time with no
\* allowed key pending ends there with a null response for its axis and
\* without an error (the trial then scores the axis incorrect).
C11_TimeoutYieldsNullResponse ==
    [][(/\ pc = "report_wait"
        /\ waited >= max_response_time
        /\ Targets(keyBuffer, ReportKeyList(trial)) = << >>
        /\ keyBuffer' = keyBuffer)
          => /\ pc' # "report_wait"
             /\ outcome' = "running"
             /\ ResponseOf(trial', Axis(trial)) = None]_vars

\* C12: in every recorded result global_correct is true exactly when the
\* global response is the cue's word index, local_correct exactly when the
\* local response is the cue's syllable index, and both_correct is their
\* conjunction; the latest result scores the cue of the trial that made it.
C12_ScoringMatchesCue ==
    /\ \A i \in DOMAIN results :
          LET r == results[i]
          IN  /\ r.global_correct = (r.global_response = << r.correct_global >>)
              /\ r.local_correct = (r.local_response = << r.correct_local >>)
              /\ r.both_correct = (r.global_correct /\ r.local_correct)
    /\ TrialYieldedResult =>
          /\ results[Len(results)].correct_global = trial.cue_info.word
          /\ results[Len(results)].correct_local = trial.cue_info.syllable
          /\ results[Len(results)].global_response = trial.global_response
          /\ results[Len(results)].local_response = trial.local_response

\* a result for cue word 2 / syllable 3 with a wrong word and the right
\* syllable: local_correct alone is true
C12_Witness ==
    \E i \in DOMAIN results :
        /\ results[i].correct_global = 2
        /\ results[i].correct_local = 3
        /\ results[i].global_response = << 3 >>
        /\ results[i].local_response = << 3 >>
        /\ ~results[i].global_correct
        /\ results[i].local_correct
        /\ ~results[i].both_correct

(***************************************************************************)
(* Properties of the stimulus sounds.                                      *)
(***************************************************************************)
\* C13: at no point of a trial are two Sound objects alive at once.
C13_AtMostOneSound == live_sounds <= 1

\* the control points at which a Sound is being presented: it has just been
\* built, or it is playing
PresentingPcs == {"enc_loaded", "enc_play", "cue_play"}

\* C14: outside the presentation of a stimulus no Sound is held: after a
\* playback completes or raises, the next phase begins with no Sound alive
\* and with syl_sound and cue_sound unbound.
C14_SoundReleasedOnEveryPath ==
    pc \notin PresentingPcs => (live_sounds = 0 /\ ~syl_sound /\ ~cue_sound)

(***************************************************************************)
(* Properties of failures.                                                 *)
(***************************************************************************)
\* C15: a stimulus that cannot be acquired or played does not stop the trial:
\* a trial that run_experiment starts enters its encoding fixation, and the
\* steps that acquire or play a stimulus never end the run with an error.
C15_StimulusFailureAbsorbed ==
    [][/\ pc = "run_trial" => pc' = "enc_fix"
       /\ pc \in {"run_trial", "enc_item", "enc_loaded", "cue"}
             => outcome' # "error"]_vars

\* C16: send_trigger never stalls or fails a trial: without a working port
\* nothing is written, and the steps that send a trigger go on to their next
\* control point with the run still running, whatever the state of the port.
C16_TriggerNeverFailsTrial ==
    /\ [](port # "ok" => triggers = << >>)
    /\ [][/\ pc = "neutral" => (pc' = "neutral_hold" /\ outcome' = outcome)
          /\ pc = "report" => (pc' = "report_prompt" /\ outcome' = outcome)
          /\ (pc = "cue" /\ cue_sound') =>
                (pc' \in {"cue_play", "retention"} /\ outcome' = outcome)
          /\ (pc = "report_response" /\ trial' # trial) =>
                (pc' \in {"inter_report", "response_display"}
                   /\ outcome' = outcome)]_vars

\* a trial run with a port whose every write raises has yielded its result,
\* with both responses recorded
C16_Witness ==
    /\ port = "faulty"
    /\ TrialYieldedResult
    /\ triggers = << >>
    /\ results[Len(results)].global_response # None
    /\ results[Len(results)].local_response # None

\* C17: every trial started so far, but one aborted, has appended exactly
\* one result: between trials the result log is as long as the trial count.
C17_OneResultPerTrial ==
    (pc = "trial_loop" /\ outcome = "running") => Len(results) = trial_counter

(***************************************************************************)
(* Properties of stale input and of persistence.                           *)
(***************************************************************************)
\* C18: pending input is discarded before each report wait, in both report
\* orders: the prompt step leaves the event buffer empty, the wait starts on
\* an empty buffer, and the keys the wait returns are keys of its keyList
\* that arrived during the wait.
C18_StaleInputDiscarded ==
    [][/\ (pc = "report" /\ pc' = "report_prompt") => keyBuffer' = << >>
       /\ (pc = "report_prompt" /\ pc' = "report_wait") => keyBuffer' = << >>
       /\ (pc = "report_wait" /\ pc' = "report_keys") =>
             keys' = Targets(keyBuffer, ReportKeyList(trial))]_vars

\* a number key pressed after the inter-report gap is pending when the second
\* report, of a trial that reports the local position first, starts its wait
C18_Witness ==
    /\ pc = "report_prompt"
    /\ trial.report_no = 2
    /\ ~trial.global_first
    /\ keyBuffer = << "2" >>

\* the results in the latest snapshot written by save_results
LastSaved ==
    IF result_files = << >> THEN << >> ELSE result_files[Len(result_files)]

\* C19: the latest snapshot holds every result of every completed block: it
\* is a prefix of the result log and the results after it all belong to the
\* block in progress; when a block is complete the snapshot is the whole log.
C19_CompletedBlocksPersisted ==
    /\ Len(LastSaved) <= Len(results)
    /\ SubSeq(results, 1, Len(LastSaved)) = LastSaved
    /\ \A i \in Len(LastSaved) + 1 .. Len(results) :
          /\ block_idx \in DOMAIN block_order
          /\ pc \notin {"block_loop", "block_wait", "block_done_wait"}
          /\ results[i].design = block_order[block_idx].design
          /\ results[i].block_num = block_order[block_idx].block_num
    /\ pc \in {"block_done_wait", "final", "final_wait"} => LastSaved = results

\* a run aborted in its second block: the first block's results are in the
\* snapshot, the second block's result is not
C19_Witness ==
    /\ outcome = "aborted"
    /\ block_idx = 2
    /\ Len(result_files) = 1
    /\ Len(LastSaved) >= 1
    /\ Len(results) > Len(LastSaved)

\* C20: before any trial is counted or enters a phase, the block order has
\* been written to its file, once, and it is the order the blocks are run
\* from: self.block_order is the saved order and every result belongs to a
\* block of the saved order.
C20_OrderSavedBeforeTrials ==
    (trial_counter > 0 \/ phase # "Idle" \/ pc \in {"block_loop", "block_wait"}) =>
        /\ order_file = << block_order >>
        /\ \A i \in DOMAIN results :
              \E j \in DOMAIN order_file[1] :
                  /\ j <= block_idx
                  /\ order_file[1][j].design = results[i].design
                  /\ order_file[1][j].block_num = results[i].block_num

\* a trial of the second block of the saved order is in progress
C20_Witness ==
    /\ TrialInProgress
    /\ block_idx = 2
    /\ Len(order_file) = 1
    /\ trial.design = order_file[1][2].design
    /\ trial.block_num = order_file[1][2].block_num

(***************************************************************************)
(* Properties of the start and the end of a run.                           *)
(***************************************************************************)
\* a configured design has no block on disk
SomeDesignWithoutBlocks == \E d \in DesignIdx : inventory[d].blocks = {}

\* C21: when a configured design has no available block the run does not
\* start: no block order is saved or executed and no trial runs.
C21_ZeroInventoryStopsRun ==
    SomeDesignWithoutBlocks =>
        /\ order_file = << >>
        /\ trial_counter = 0
        /\ phase = "Idle"

\* C22: the run ends with an error only at scheduling (a zero-inventory
\* design): once the block order is saved, no stimulus problem, trigger
\* failure, pause key or response key ends the run with an error.
C22_OnlySchedulingErrors ==
    outcome = "error" => (order_file = << >> /\ trial_counter = 0)

\* the three designs have block counts 2, 2 and 1 in some assignment
CountsAre221 ==
    \E d \in DesignIdx :
        /\ BlockCount(d) = 1
        /\ \A e \in DesignIdx \ {d} : BlockCount(e) = 2

\* C23: for block counts {2,2,1} the generated order is two triplets, each
\* with one block of every design, in its first 6 entries, followed by one
\* leftover block of a design that has more than one block.
C23_TwoTripletsThenLeftover ==
    (OrderGenerated /\ CountsAre221) =>
        /\ Len(block_order) = 7
        /\ OneOfEach(0, 3)
        /\ OneOfEach(3, 3)
        /\ BlockCount(IdxOf(block_order[7].design)) > 1

\* C23, amended: for block counts {2,2,1} the generated order is one triplet
\* with one block of every design in its first 3 entries, followed by two
\* leftover blocks, one of each design that has two blocks, in the order in
\* which the designs are declared.
C23_OneTripletThenLeftovers ==
    (OrderGenerated /\ CountsAre221) =>
        /\ Len(block_order) = 5
        /\ OneOfEach(0, 3)
        /\ BlockCount(IdxOf(block_order[4].design)) = 2
        /\ BlockCount(IdxOf(block_order[5].design)) = 2
        /\ IdxOf(block_order[4].design) < IdxOf(block_order[5].design)
        /\ \A i \in 4 .. 5 : \A j \in 1 .. 3 :
              block_order[i].design = block_order[j].design
                 => block_order[i].block_num # block_order[j].block_num

\* an order for counts 2, 2, 1: the single block of the third design is in
\* the triplet and the tail holds block 2 of the first design
C23_Witness ==
    /\ OrderGenerated
    /\ BlockCount(1) = 2 /\ BlockCount(2) = 2 /\ BlockCount(3) = 1
    /\ block_order[4].design = block_designs[1].name
    /\ block_order[4].block_num = 2
    /\ block_order[5].design = block_designs[2].name

\* C24: after a cancelled subject dialog nothing has been scheduled or run:
\* no block order is generated or saved, no trial phase has run, no trigger
\* was sent, no result is recorded or saved, and the run is over.
C24_CancelBeforeScheduling ==
    outcome = "cancelled" =>
        /\ pc = "exit"
        /\ blocks_by_design = << >>
        /\ block_order = << >>
        /\ order_file = << >>
        /\ trial_counter = 0
        /\ phase = "Idle"
        /\ triggers = << >>
        /\ results = << >>
        /\ result_files = << >>

\* the dialog was cancelled although stimuli are on disk
C24_Witness ==
    /\ outcome = "cancelled"
    /\ pc = "exit"
    /\ ~SomeDesignWithoutBlocks \/ \E d \in DesignIdx : inventory[d].trials > 0

(***************************************************************************)
(* Properties of practice trials, report order and the result log.         *)
(***************************************************************************)
\* C25: the trial in progress is a practice trial exactly when it is the
\* first trial (index 0) of its block; the feedback phase runs exactly for a
\* practice trial, after the response display and before the inter-trial gap.
C25_PracticeFirstAndFeedback ==
    /\ [](TrialInProgress => trial.is_practice = (trial_idx = 0))
    /\ [](phase = "Feedback" => trial.is_practice)
    /\ [][/\ (phase = "ResponseDisplayHold" /\ phase' # phase) =>
                phase' = (IF trial.is_practice THEN "Feedback" ELSE "InterTrialGap")
          /\ (phase' = "Feedback" /\ phase # phase') => phase = "ResponseDisplayHold"
          /\ (phase = "Feedback" /\ phase' # phase) => phase' = "InterTrialGap"]_vars

\* the second trial of a block, not a practice trial, is in its inter-trial
\* gap after the practice trial of the block has been recorded
C25_Witness ==
    /\ phase = "InterTrialGap"
    /\ trial_idx = 1
    /\ ~trial.is_practice
    /\ Len(results) >= 1
    /\ results[Len(results)].is_practice

\* the axis the trial reports first
PrimaryAxis == IF trial.global_first THEN "global" ELSE "local"

\* the axis the trial reports second
SecondaryAxis == IF trial.global_first THEN "local" ELSE "global"

\* C26: in both report orders the first report collects the response of the
\* axis chosen by global_first and the second report that of the other axis,
\* each response is collected once and never changed, a completed trial has
\* both, and its result records the trial's global_first.
C26_BothReportOrders ==
    /\ [](phase = "ReportPrimary" =>
            /\ Axis(trial) = PrimaryAxis
            /\ trial.global_response = None
            /\ trial.local_response = None)
    /\ [](phase \in {"InterReportGap", "ReportSecondary"} =>
            /\ ResponseOf(trial, PrimaryAxis) # None
            /\ ResponseOf(trial, SecondaryAxis) = None)
    /\ [](phase = "ReportSecondary" => Axis(trial) = SecondaryAxis)
    /\ [](phase \in {"ResponseDisplayHold", "Feedback", "InterTrialGap", "Done"} =>
            /\ trial.global_response # None
            /\ trial.local_response # None)
    /\ [](TrialYieldedResult =>
            results[Len(results)].global_first = trial.global_first)
    /\ [][\A axis \in {"global", "local"} :
            (TrialInProgress /\ ResponseOf(trial, axis) # None)
               => ResponseOf(trial', axis) = ResponseOf(trial, axis)]_vars

\* a completed trial that reported the local position first: its result has
\* the global response 3, the local response 2 and global_first false
C26_Witness ==
    /\ TrialYieldedResult
    /\ ~results[Len(results)].global_first
    /\ results[Len(results)].global_response = << 3 >>
    /\ results[Len(results)].local_response = << 2 >>

\* sequence s is an initial part of sequence t
IsPrefix(s, t) == Len(s) <= Len(t) /\ SubSeq(t, 1, Len(s)) = s

\* C27: the result log is append-only: after its reset at the start of the
\* trials it changes only by one result appended at its end; save_results
\* writes the log as it is and leaves it unchanged, so of two snapshots the
\* earlier is an initial part of the later and two snapshots with no append
\* between them are equal.
C27_ResultLogAppendOnly ==
    /\ [][/\ \/ results' = results
             \/ pc = "instr_wait" /\ results = << >> /\ results' = << >>
             \/ /\ Len(results') = Len(results) + 1
                /\ IsPrefix(results, results')
          /\ result_files' # result_files =>
                /\ results' = results
                /\ result_files' = Append(result_files, results)]_vars
    /\ [](\A i, j \in DOMAIN result_files :
            i <= j => IsPrefix(result_files[i], result_files[j]))
    /\ [](\A i \in DOMAIN result_files : IsPrefix(result_files[i], results))

\* three snapshots: the second holds more results than the first, and the
\* third, written with no result appended since the second, equals it
C27_Witness ==
    /\ Len(result_files) = 3
    /\ result_files[1] # << >>
    /\ Len(result_files[2]) > Len(result_files[1])
    /\ result_files[3] = result_files[2]

(***************************************************************************)
(* Properties of the phases of a trial.                                    *)
(***************************************************************************)
\* the phase that follows phase ph in a trial, practice or not
NextPhase(ph, practice) ==
    CASE ph = "EncodingFixation"    -> "EncodingSequence"
      [] ph = "EncodingSequence"    -> "CuePlayback"
      [] ph = "CuePlayback"         -> "RetentionDelay"
      [] ph = "RetentionDelay"      -> "NeutralImpulse"
      [] ph = "NeutralImpulse"      -> "PostImpulseFixation"
      [] ph = "PostImpulseFixation" -> "ReportPrimary"
      [] ph = "ReportPrimary"       -> "InterReportGap"
      [] ph = "InterReportGap"      -> "ReportSecondary"
      [] ph = "ReportSecondary"     -> "ResponseDisplayHold"
      [] ph = "ResponseDisplayHold" -> (IF practice THEN "Feedback" ELSE "InterTrialGap")
      [] ph = "Feedback"            -> "InterTrialGap"
      [] ph = "InterTrialGap"       -> "Done"
      [] OTHER                      -> "EncodingFixation"

\* C28: a trial in progress goes through its phases in the fixed order: each
\* step keeps the phase or enters the next one, none is skipped, repeated or
\* entered out of order, and only an abort ends the trial before Done.
C28_PhasesInFixedOrder ==
    [][TrialInProgress =>
         /\ phase' = phase \/ phase' = NextPhase(phase, trial.is_practice)
         /\ outcome' \in {"running", "aborted"}]_vars

(***************************************************************************)
(* Properties of the shape of the block order.                             *)
(***************************************************************************)
\* the designs that have a list in blocks_by_design, in declaration order
PresentDesigns == design_names(inventory)

\* the smallest length of a shuffled list
ShuffledMin == MinOf({Len(blocks_by_design[n]) : n \in Range(PresentDesigns)})

\* C29: with D designs and m the smallest per-design count, for each round
\* i of the m rounds the D entries of the order at the round's positions are
\* exactly the i-th block of each design's shuffled list.
C29_TripletsTakeIthBlocks ==
    OrderGenerated =>
        LET D == Len(PresentDesigns)
        IN  \A i \in 1 .. ShuffledMin :
               {block_order[(i - 1) * D + j] : j \in 1 .. D}
                  = {blocks_by_design[n][i] : n \in Range(PresentDesigns)}

\* two rounds of three designs: the second round starts with a block of the
\* third design, and block 2 of the first design was shuffled to the front
C29_Witness ==
    /\ OrderGenerated
    /\ Len(block_order) = 6
    /\ ShuffledMin = 2
    /\ block_order[4].design = block_designs[3].name
    /\ blocks_by_design[block_designs[1].name][1].block_num = 2

\* the entries of the order after the rounds
Leftovers ==
    SubSeq(block_order, Len(PresentDesigns) * ShuffledMin + 1, Len(block_order))

CheckPausePcs ==
    {"trial_loop", "enc_fix", "enc_item", "enc_loaded", "enc_play", "retention",
     "post_impulse", "report_keys", "inter_report", "iti", "pause_wait"}

\* C31: the paused flag is true only inside check_pause (in its pause loop,
\* or when the run was aborted from that loop) and changes only in a step of
\* check_pause; a step that enters a phase, sends a trigger or appends a
\* result starts with the flag false.
C31_PausedOnlyInsideCheckPause ==
    /\ [](paused => \/ pc = "pause_wait"
                    \/ pc = "exit" /\ outcome = "aborted")
    /\ [][/\ paused' # paused => pc \in CheckPausePcs
          /\ (phase' # phase \/ triggers' # triggers \/ results' # results)
                => ~paused]_vars

\* the run was aborted from the pause loop during a trial: the only way in
\* which control leaves check_pause with the flag set
C31_Witness ==
    /\ paused
    /\ pc = "exit"
    /\ outcome = "aborted"
    /\ TrialInProgress

(***************************************************************************)
(* Properties of the recorded responses.                                   *)
(***************************************************************************)
\* runs of at most one block of one trial with a working port, every
\* stimulus fault, and a participant who also presses the number key 4,
\* which is no word position in a design of three words
InitRange ==
    InitWith("get_subject_info", RunInventories(1, 1), {"ok"}, {Faults},
             {{"3", "4", "p", "escape"}})

SpecRange == InitRange /\ [][NextTrial]_vars

\* the configured design of a recorded result
DesignOf(r) == block_designs[IdxOf(r.design)]

\* C32: every recorded result has a global response in 1..num_words and a
\* local response in 1..syllables_per_word of its design, each with a
\* reaction time: no pause key, abort key or other key is ever recorded.
C32_ResponsesInRange ==
    \A i \in DOMAIN results :
        LET r == results[i]
        IN  /\ r.global_response # None
            /\ r.global_response[1] \in 1 .. DesignOf(r).num_words
            /\ r.local_response # None
            /\ r.local_response[1] \in 1 .. DesignOf(r).syllables_per_word
            /\ r.global_rt # None
            /\ r.local_rt # None

\* a result of the design of three words of four syllables: the key 4 was
\* recorded as the syllable position, the key 3 as the word position
C32_Witness ==
    \E i \in DOMAIN results :
        /\ DesignOf(results[i]).num_words = 3
        /\ results[i].global_response = << 3 >>
        /\ results[i].local_response = << 4 >>

(***************************************************************************)
(* Properties of the order of blocks and trials.                           *)
(***************************************************************************)
\* the inventories of runs of one block of up to MaxCapTrialDirs trial
\* directories, or of up to MaxRunBlocks blocks of at most one
BlocksInventories ==
    {inv \in RunInventories(MaxRunBlocks, MaxCapTrialDirs) :
        Cardinality(inv[1].blocks) + Cardinality(inv[2].blocks)
              + Cardinality(inv[3].blocks) > 1
           => \A d \in DesignIdx : inv[d].trials <= 1}

\* whole runs on these inventories, with a working port, trials whose cue
\* file can be absent, and a participant who answers and pauses but never
\* aborts
InitBlocks ==
    InitWith("get_subject_info", BlocksInventories, {"ok"}, {{"missing"}},
             {{"2", "p"}})

SpecBlocks == InitBlocks /\ [][Next]_vars

\* C33: the blocks run in the order of block_order and the trials of a block
\* in ascending index, at most three per block; every call of run_trial
\* takes the next trial number, whether or not it yields a result, and the
\* trial numbers in the result log are strictly increasing.
C33_BlocksAndTrialsInOrder ==
    /\ [](trial_dirs <= trials_per_block)
    /\ [](TrialInProgress =>
            /\ block_idx \in DOMAIN block_order
            /\ trial.design = block_order[block_idx].design
            /\ trial.block_num = block_order[block_idx].block_num
            /\ trial.trial_num = trial_counter
            /\ trial_idx < trial_dirs)
    /\ [](\A i, j \in DOMAIN results : i < j => results[i].trial < results[j].trial)
    /\ [](\A i \in DOMAIN results : results[i].trial \in 1 .. trial_counter)
    /\ [][/\ block_idx' \in {block_idx, block_idx + 1}
          /\ \/ trial_idx' \in {trial_idx, trial_idx + 1}
             \/ pc = "block_wait" /\ trial_idx' = 0
          /\ IF pc = "run_trial"
               THEN trial_counter' = trial_counter + 1
               ELSE trial_counter' = trial_counter
          /\ (pc = "run_trial" /\ pc' = "trial_loop") =>
                (results' = results /\ trial_idx' = trial_idx + 1)
          /\ results' # results /\ pc # "instr_wait" =>
                results'[Len(results')].trial = trial_counter]_vars

\* a block with four trial directories has run its three trials: the first
\* was skipped for its cue file and left no result, the log holds trials 2, 3
C33_Witness ==
    /\ \E d \in DesignIdx : inventory[d].trials = 4
    /\ trial_dirs = 3
    /\ trial_idx = 3
    /\ trial_counter = 3
    /\ Len(results) = 2
    /\ results[1].trial = 2
    /\ results[2].trial = 3

====
